---- MODULE Spec2Model ----
(***************************************************************************)
(* Context Organizer: the tree built from .vscode/contexts.json by         *)
(* TreeDataProvider (src/src/core/treeDataProvider.ts) and the Add-Note    *)
(* command (src/src/commands/addNoteToFileCommand.ts).                     *)
(*                                                                         *)
(* Strings whose characters the code inspects (paths, context names) are   *)
(* sequences of one-character strings: "a/a.t" is <<"a","/","a",".","t">>. *)
(* Note texts are only tested for emptiness and are plain strings.         *)
(***************************************************************************)
EXTENDS Integers, Sequences, FiniteSets, TLC

(***************************************************************************)
(* Bounds of the model.                                                    *)
(***************************************************************************)
\* path entries of a document, over all its contexts
MaxEntries == 2
\* refresh commands that may be queued and not yet run
MaxPending == 1

(***************************************************************************)
(* Character-level string helpers.                                         *)
(***************************************************************************)
Sep == "/"
Dot == "."
EmptyStr == <<>>

\* the workspace root, "/w"
Root == <<"/", "w">>

\* String.prototype.split(path.sep): the pieces between separators, at
\* least one piece, empty pieces kept.
RECURSIVE SplitFrom(_, _, _)
SplitFrom(s, i, cur) ==
    IF i > Len(s) THEN <<cur>>
    ELSE IF s[i] = Sep THEN <<cur>> \o SplitFrom(s, i + 1, EmptyStr)
    ELSE SplitFrom(s, i + 1, Append(cur, s[i]))

Split(s) == SplitFrom(s, 1, EmptyStr)

\* Array.prototype.join(path.sep)
RECURSIVE JoinSep(_)
JoinSep(segs) ==
    IF Len(segs) = 0 THEN EmptyStr
    ELSE IF Len(segs) = 1 THEN segs[1]
    ELSE segs[1] \o <<Sep>> \o JoinSep(Tail(segs))

\* path.join's first step: the non-empty arguments joined by the separator.
RECURSIVE JoinNonEmpty(_)
JoinNonEmpty(args) ==
    IF Len(args) = 0 THEN EmptyStr
    ELSE LET rest == JoinNonEmpty(Tail(args))
         IN  IF Len(args[1]) = 0 THEN rest
             ELSE IF Len(rest) = 0 THEN args[1]
             ELSE args[1] \o <<Sep>> \o rest

\* normalizeString of an absolute path: empty and "." segments dropped,
\* ".." removes the segment before it and is dropped at the root.
RECURSIVE NormSegs(_, _)
NormSegs(segs, acc) ==
    IF Len(segs) = 0 THEN acc
    ELSE LET s == segs[1]
         IN  IF s = EmptyStr \/ s = <<Dot>> THEN NormSegs(Tail(segs), acc)
             ELSE IF s = <<Dot, Dot>>
                  THEN NormSegs(Tail(segs),
                                IF Len(acc) = 0 THEN acc
                                ELSE SubSeq(acc, 1, Len(acc) - 1))
             ELSE NormSegs(Tail(segs), Append(acc, s))

\* path.normalize of an absolute path (every path the code joins starts with
\* the workspace root): a trailing separator of the input is kept.
NormalizeAbs(p) ==
    LET segs     == NormSegs(Split(p), <<>>)
        trailing == Len(p) > 0 /\ p[Len(p)] = Sep
    IN  IF Len(segs) = 0 THEN <<Sep>>
        ELSE <<Sep>> \o JoinSep(segs) \o (IF trailing THEN <<Sep>> ELSE EmptyStr)

\* path.join(root, ...parts)
PathJoin(root, parts) == NormalizeAbs(JoinNonEmpty(<<root>> \o parts))

\* the pieces of p without the empty pieces that trailing separators leave
RECURSIVE DropTrailingEmpty(_)
DropTrailingEmpty(segs) ==
    IF Len(segs) = 0 THEN segs
    ELSE IF segs[Len(segs)] = EmptyStr
         THEN DropTrailingEmpty(SubSeq(segs, 1, Len(segs) - 1))
    ELSE segs

\* path.basename(p): the last component, trailing separators ignored;
\* empty for "" and for "/".
Basename(p) ==
    LET segs == DropTrailingEmpty(Split(p))
    IN  IF Len(segs) = 0 THEN EmptyStr ELSE segs[Len(segs)]

\* index of the last dot of s, 0 when there is none
RECURSIVE LastDot(_, _)
LastDot(s, i) ==
    IF i = 0 THEN 0
    ELSE IF s[i] = Dot THEN i
    ELSE LastDot(s, i - 1)

\* path.extname(p): from the last dot of the last component to its end;
\* empty when the component has no dot, starts with its only dot, or is "..".
Extname(p) ==
    LET base     == Basename(p)
        end      == Len(base)
        startDot == LastDot(base, end)
        \* preDotState after the scan: 0 nothing before the dot, 1 the
        \* component begins with a dot, -1 it begins with another character
        preDotState == IF startDot <= 1 THEN 0
                       ELSE IF base[1] = Dot THEN 1 ELSE -1
    IN  IF \/ startDot = 0
           \/ end = 0
           \/ preDotState = 0
           \/ (preDotState = 1 /\ startDot = end /\ startDot = 2)
        THEN EmptyStr
        ELSE SubSeq(base, startDot, end)

\* length of the common prefix of two segment lists
RECURSIVE CommonLen(_, _)
CommonLen(a, b) ==
    IF Len(a) = 0 \/ Len(b) = 0 \/ a[1] # b[1] THEN 0
    ELSE 1 + CommonLen(Tail(a), Tail(b))

\* path.relative(from, to) of two normalized absolute paths: one ".." per
\* remaining segment of from, then the remaining segments of to.
Relative(from, to) ==
    LET f  == NormSegs(Split(from), <<>>)
        t  == NormSegs(Split(to), <<>>)
        k  == CommonLen(f, t)
        up == [i \in 1..(Len(f) - k) |-> <<Dot, Dot>>]
    IN  JoinSep(up \o SubSeq(t, k + 1, Len(t)))

(***************************************************************************)
(* contexts.json.  The file is absent, not well-formed JSON ("garbage"),   *)
(* the JSON text null, or a document.  A document's text lists the members *)
(* of "contexts" in the order they are written; a context's value is a     *)
(* list of paths or (isList = FALSE) something that is not iterable.       *)
(***************************************************************************)
NoNotes == [p \in {} |-> ""]

AbsentFile  == [kind |-> "absent",  contexts |-> <<>>, hasNotes |-> FALSE,
                notes |-> NoNotes, hasConfigs |-> FALSE, showFolders |-> FALSE]
GarbageFile == [kind |-> "garbage", contexts |-> <<>>, hasNotes |-> FALSE,
                notes |-> NoNotes, hasConfigs |-> FALSE, showFolders |-> FALSE]
NullFile    == [kind |-> "null",    contexts |-> <<>>, hasNotes |-> FALSE,
                notes |-> NoNotes, hasConfigs |-> FALSE, showFolders |-> FALSE]

DocFile(ctxs, hasNotes, notes, hasConfigs, showFolders) ==
    [kind |-> "doc", contexts |-> ctxs, hasNotes |-> hasNotes, notes |-> notes,
     hasConfigs |-> hasConfigs, showFolders |-> showFolders]

Ctx(name, paths) == [name |-> name, isList |-> TRUE, paths |-> paths]
BadCtx(name)     == [name |-> name, isList |-> FALSE, paths |-> <<>>]

\* fs.existsSync(configPath)
ExistsSync(file) == file.kind # "absent"

DigitChars == <<"0", "1", "2", "3", "4", "5", "6", "7", "8", "9">>
IsDigit(c) == \E i \in 1..Len(DigitChars) : DigitChars[i] = c
DigitVal(c) == (CHOOSE i \in 1..Len(DigitChars) : DigitChars[i] = c) - 1

\* A property key that is a canonical array index ("0", "7", "12", not "07"):
\* such keys of a JavaScript object are enumerated first, in numeric order.
IsIndexKey(name) ==
    /\ Len(name) > 0
    /\ \A i \in 1..Len(name) : IsDigit(name[i])
    /\ (Len(name) > 1 => name[1] # "0")

RECURSIVE KeyNum(_)
KeyNum(name) ==
    IF Len(name) = 0 THEN 0
    ELSE 10 * KeyNum(SubSeq(name, 1, Len(name) - 1)) + DigitVal(name[Len(name)])

\* obj[member.name] = member.value on an object whose own keys are listed in
\* enumeration order: an existing key keeps its place, a new index key goes
\* among the index keys in numeric order, any other new key goes last.
SetKey(obj, member) ==
    IF \E i \in 1..Len(obj) : obj[i].name = member.name
    THEN [i \in 1..Len(obj) |->
            IF obj[i].name = member.name THEN member ELSE obj[i]]
    ELSE IF IsIndexKey(member.name)
    THEN LET before == {i \in 1..Len(obj) :
                          /\ IsIndexKey(obj[i].name)
                          /\ KeyNum(obj[i].name) < KeyNum(member.name)}
             k == Cardinality(before)
         IN  SubSeq(obj, 1, k) \o <<member>> \o SubSeq(obj, k + 1, Len(obj))
    ELSE Append(obj, member)

RECURSIVE ParseMembers(_, _)
ParseMembers(members, obj) ==
    IF Len(members) = 0 THEN obj
    ELSE ParseMembers(Tail(members), SetKey(obj, members[1]))

\* JSON.parse(fs.readFileSync(configPath, 'utf-8')) of a file that parses:
\* the value in memory, "contexts" in enumeration order.
ParseJSON(file) ==
    [isNull |-> file.kind = "null",
     contexts |-> ParseMembers(file.contexts, <<>>),
     hasNotes |-> file.hasNotes, notes |-> file.notes,
     hasConfigs |-> file.hasConfigs, showFolders |-> file.showFolders]

\* JSON.parse throws a SyntaxError on text that is not JSON
ParseThrows(file) == file.kind = "garbage"

\* JSON.stringify(config, null, 2): the members in enumeration order
StringifyJSON(config) ==
    IF config.isNull THEN NullFile
    ELSE DocFile(config.contexts, config.hasNotes, config.notes,
                 config.hasConfigs, config.showFolders)

\* config.notes && config.notes[relativePath]: a note that is present and
\* not the empty string
NoteOf(config, relativePath) ==
    IF config.hasNotes /\ relativePath \in DOMAIN config.notes
    THEN config.notes[relativePath] ELSE ""

(***************************************************************************)
(* Tree items.                                                             *)
(***************************************************************************)
NoDescription == [kind |-> "none", text |-> EmptyStr]

\* new Section(label, children)
Section(label, children) ==
    [kind |-> "section", label |-> label, children |-> children,
     filePath |-> EmptyStr, contextName |-> EmptyStr,
     hasTooltip |-> FALSE, note |-> "", description |-> NoDescription]

\* new Folder(label)
Folder(label) ==
    [kind |-> "folder", label |-> label, children |-> <<>>,
     filePath |-> EmptyStr, contextName |-> EmptyStr,
     hasTooltip |-> FALSE, note |-> "", description |-> NoDescription]

\* new File(filePath, contextName) with the two branches of the description
\* exchanged: the glyph whenever there is a note, the folder name otherwise
FileGlyphFirst(filePath, contextName, config) ==
    LET relativePath == Relative(Root, filePath)
        note         == NoteOf(config, relativePath)
        parts        == Split(filePath)
    IN  [kind |-> "file", label |-> Basename(filePath), children |-> <<>>,
         filePath |-> filePath, contextName |-> contextName,
         hasTooltip |-> note # "", note |-> note,
         description |->
            IF note # "" THEN [kind |-> "glyph", text |-> EmptyStr]
            ELSE IF ~config.showFolders /\ Len(parts) >= 2
                 THEN [kind |-> "text", text |-> parts[Len(parts) - 1]]
            ELSE NoDescription]

\* new File(filePath, contextName), which reads contexts.json again for
\* configs.showFolders and the note of the file's relative path
File(filePath, contextName, config) ==
    LET relativePath == Relative(Root, filePath)
        note         == NoteOf(config, relativePath)
        parts        == Split(filePath)
    IN  [kind |-> "file", label |-> Basename(filePath), children |-> <<>>,
         filePath |-> filePath, contextName |-> contextName,
         hasTooltip |-> note # "", note |-> note,
         description |->
            IF ~config.showFolders
            THEN IF Len(parts) >= 2
                 THEN [kind |-> "text", text |-> parts[Len(parts) - 1]]
                 ELSE NoDescription
            ELSE IF note # "" THEN [kind |-> "glyph", text |-> EmptyStr]
            ELSE NoDescription]

\* currentLevel.find(item => item.label === part): the index of the first
\* item with that label, 0 when there is none
FindLabel(level, part) ==
    IF \E i \in 1..Len(level) : level[i].label = part
    THEN CHOOSE i \in 1..Len(level) :
            /\ level[i].label = part
            /\ \A j \in 1..(i - 1) : level[j].label # part
    ELSE 0

\* the loop of addToTree from segment i on, at the level currentLevel: the
\* level as the loop leaves it
RECURSIVE AddParts(_, _, _, _, _)
AddParts(currentLevel, parts, i, contextName, config) ==
    LET part         == parts[i]
        isFile       == i = Len(parts)
        existingItem == FindLabel(currentLevel, part)
    IN  IF isFile
        THEN IF existingItem = 0
             THEN Append(currentLevel,
                         File(PathJoin(Root, parts), contextName, config))
             ELSE currentLevel
        ELSE IF existingItem = 0
             THEN Append(currentLevel,
                         [Folder(part) EXCEPT !.children =
                            AddParts(<<>>, parts, i + 1, contextName, config)])
             ELSE [currentLevel EXCEPT ![existingItem].children =
                      AddParts(@, parts, i + 1, contextName, config)]

\* addToTree with the showFolders test lost: the folder loop in both modes
AddToTreeAlwaysGrouped(parent, fullPath, contextName, config) ==
    AddParts(parent, Split(fullPath), 1, contextName, config)

\* addToTree(parent, fullPath, contextName)
AddToTree(parent, fullPath, contextName, config) ==
    LET parts == Split(fullPath)
    IN  IF config.showFolders
        THEN AddParts(parent, parts, 1, contextName, config)
        ELSE Append(parent, File(PathJoin(Root, parts), contextName, config))

\* the inner loop of handleLoadConfig over the paths of one context, from
\* entry i on
RECURSIVE SectionItems(_, _, _, _, _)
SectionItems(sectionItems, paths, i, sectionName, config) ==
    IF i > Len(paths) THEN sectionItems
    ELSE LET filePath == paths[i]
         IN  SectionItems(
                IF config.showFolders \/ Extname(filePath) # EmptyStr
                THEN AddToTree(sectionItems, filePath, sectionName, config)
                ELSE sectionItems,
                paths, i + 1, sectionName, config)

\* the outer loop of handleLoadConfig from context i on: the items pushed
\* and whether the loop threw (a context whose value is not iterable)
RECURSIVE LoadSections(_, _, _)
LoadSections(its, config, i) ==
    IF i > Len(config.contexts) THEN [items |-> its, threw |-> FALSE]
    ELSE LET c == config.contexts[i]
         IN  IF ~c.isList THEN [items |-> its, threw |-> TRUE]
             ELSE LoadSections(
                     Append(its, Section(c.name,
                               SectionItems(<<>>, c.paths, 1, c.name, config))),
                     config, i + 1)

\* handleLoadConfig(configPath) on this._items = its: the items it leaves,
\* whether it threw and whether what it threw is a SyntaxError
HandleLoadConfig(its, file) ==
    IF ParseThrows(file)
    THEN [items |-> its, threw |-> TRUE, syntax |-> TRUE]
    ELSE LET config == ParseJSON(file)
         IN  IF config.isNull \/ ~config.hasConfigs
             THEN [items |-> its, threw |-> TRUE, syntax |-> FALSE]
             ELSE LET r == LoadSections(its, config, 1)
                  IN  [items |-> r.items, threw |-> r.threw, syntax |-> FALSE]

\* the rest of loadConfig() once this._items is start
LoadInto(start, file) ==
    IF ExistsSync(file)
    THEN LET r == HandleLoadConfig(start, file)
         IN  [items |-> r.items,
              msgs  |-> IF r.threw
                        THEN <<"error: check your file",
                               IF r.syntax THEN "error: details"
                               ELSE "error: check your file">>
                        ELSE <<>>]
    ELSE [items |-> start, msgs |-> <<"warning: not found">>]

\* loadConfig() without its first statement: the items of the last load stay
LoadConfigKeepsItems(prev, file) == LoadInto(prev, file)

\* loadConfig() with this._items = prev: the items emptied and loaded, and
\* the notifications shown
LoadConfig(prev, file) == LoadInto(<<>>, file)

(***************************************************************************)
(* The Add-Note command.                                                   *)
(***************************************************************************)
\* a value for config while no document is loaded
NoConfig == ParseJSON(NullFile)

\* the argument of the command: a File item of the tree, or undefined
Undefined == [defined |-> FALSE, filePath |-> EmptyStr]
FileItem(filePath) == [defined |-> TRUE, filePath |-> filePath]

\* if (!config.notes) { config.notes = {}; }
InitNotes(config) ==
    IF config.hasNotes THEN config
    ELSE [config EXCEPT !.hasNotes = TRUE, !.notes = NoNotes]

\* config.notes[relativePath] || ''
ExistingNote(config, relativePath) ==
    IF relativePath \in DOMAIN config.notes THEN config.notes[relativePath]
    ELSE ""

\* delete config.notes[relativePath]
DeleteNote(notes, relativePath) ==
    [q \in (DOMAIN notes) \ {relativePath} |-> notes[q]]

\* config.notes[relativePath] = note
SetNote(notes, relativePath, note) ==
    [q \in (DOMAIN notes) \cup {relativePath} |->
        IF q = relativePath THEN note ELSE notes[q]]

\* the branch with the clean-up of an emptied notes section left out
ApplyNoteKeepsEmptySection(config, relativePath, note) ==
    IF note = ""
    THEN [config EXCEPT !.notes = DeleteNote(config.notes, relativePath)]
    ELSE [config EXCEPT !.notes = SetNote(config.notes, relativePath, note)]

\* the branch storing the note in a fresh notes section
ApplyNoteFreshSection(config, relativePath, note) ==
    IF note = ""
    THEN LET left == DeleteNote(config.notes, relativePath)
         IN  IF DOMAIN left = {}
             THEN [config EXCEPT !.hasNotes = FALSE, !.notes = NoNotes]
             ELSE [config EXCEPT !.notes = left]
    ELSE [config EXCEPT !.notes = SetNote(NoNotes, relativePath, note)]

\* the branch on note === '': the entry removed, and the notes section with
\* it when no entry is left, or the entry added or updated
ApplyNote(config, relativePath, note) ==
    IF note = ""
    THEN LET left == DeleteNote(config.notes, relativePath)
         IN  IF DOMAIN left = {}
             THEN [config EXCEPT !.hasNotes = FALSE, !.notes = NoNotes]
             ELSE [config EXCEPT !.notes = left]
    ELSE [config EXCEPT !.notes = SetNote(config.notes, relativePath, note)]

\* addNoteToFileCommand up to the await of showInputBox: where the command
\* stands, what it has shown, whether it threw, and the document it holds
AddNoteStart(file, hasWorkspace, fileItem) ==
    LET end(msg, threw) ==
            [pc |-> "done", shown |-> msg, thrown |-> threw,
             config |-> NoConfig, target |-> EmptyStr]
    IN  IF ~hasWorkspace THEN end("error: no workspace", FALSE)
        ELSE IF ~ExistsSync(file) THEN end("error: not found", FALSE)
        \* fileItem.filePath of undefined: a TypeError outside any try
        ELSE IF ~fileItem.defined THEN end("none", TRUE)
        ELSE IF ParseThrows(file) THEN end("error: reading", FALSE)
        ELSE LET config == ParseJSON(file)
             IN  \* config.notes of null: a TypeError outside any try
                 IF config.isNull THEN end("none", TRUE)
                 ELSE [pc |-> "prompt", shown |-> "none", thrown |-> FALSE,
                       config |-> InitNotes(config),
                       target |-> Relative(Root, fileItem.filePath)]

\* the answer of showInputBox: undefined (as before the answer) when the
\* user cancels
Cancelled == [cancelled |-> TRUE, text |-> ""]
Submitted(text) == [cancelled |-> FALSE, text |-> text]

\* the end of the command with the cancel test written as a test for a
\* non-empty answer: a cancelled prompt removes the note
AddNoteFinishCancelRemoves(file, config, relativePath, answer, writeOk) ==
    LET c == ApplyNote(config, relativePath, answer.text)
    IN  IF writeOk
        THEN [file |-> StringifyJSON(c),
              shown |-> IF answer.text = "" THEN "info: removed"
                        ELSE "info: saved",
              refreshes |-> 1]
        ELSE [file |-> file, shown |-> "error: saving", refreshes |-> 0]

\* the end of the command with the refresh moved behind the try block: it is
\* issued after a failed write too
AddNoteFinishRefreshAfterTry(file, config, relativePath, answer, writeOk) ==
    IF answer.cancelled
    THEN [file |-> file, shown |-> "none", refreshes |-> 0]
    ELSE LET c == ApplyNote(config, relativePath, answer.text)
         IN  IF writeOk
             THEN [file |-> StringifyJSON(c),
                   shown |-> IF answer.text = "" THEN "info: removed"
                             ELSE "info: saved",
                   refreshes |-> 1]
             ELSE [file |-> file, shown |-> "error: saving", refreshes |-> 1]

\* addNoteToFileCommand after the await: the file it leaves, what it shows
\* and how many refresh commands it issues
AddNoteFinish(file, config, relativePath, answer, writeOk) ==
    IF answer.cancelled
    THEN [file |-> file, shown |-> "none", refreshes |-> 0]
    ELSE LET c == ApplyNote(config, relativePath, answer.text)
         IN  IF writeOk
             THEN [file |-> StringifyJSON(c),
                   shown |-> IF answer.text = "" THEN "info: removed"
                             ELSE "info: saved",
                   refreshes |-> 1]
             ELSE [file |-> file, shown |-> "error: saving", refreshes |-> 0]

(***************************************************************************)
(* Inputs.                                                                 *)
(***************************************************************************)
ctxA == <<"A">>
ctx1 == <<"1">>
ctx2 == <<"2">>

pAT  == <<"a", ".", "t">>
pA   == <<"a">>
pAAT == <<"a", "/", "a", ".", "t">>
pAA  == <<"a", "/", "a">>
pAS  == <<"a", "/">>

\* the path entries documents are built from: with and without extension,
\* nested, sharing a folder, a name used both as file and as folder, an
\* empty final segment
Paths == {pAT, pA, pAAT, pAA, pAS}

CtxNames == {ctxA, ctx1, ctx2}

PathLists(n) == UNION {[1..k -> Paths] : k \in 0..n}

\* the values of one context using at most n entries
CtxValues(n) == {[isList |-> TRUE, paths |-> l] : l \in PathLists(n)}
                \cup {[isList |-> FALSE, paths |-> <<>>]}

Member(name, v) == [name |-> name, isList |-> v.isList, paths |-> v.paths]

\* the "contexts" members of the documents: none, one or two contexts with
\* at most MaxEntries path entries together
ContextTexts ==
    {<<>>}
    \cup {<<Member(n, v)>> : n \in CtxNames, v \in CtxValues(MaxEntries)}
    \cup {<<Member(n[1], v), Member(n[2], w)>> :
            n \in {m \in CtxNames \X CtxNames : m[1] # m[2]},
            v \in CtxValues(MaxEntries),
            w \in CtxValues(MaxEntries)}

EntryCount(ctxs) ==
    IF Len(ctxs) = 0 THEN 0
    ELSE IF Len(ctxs) = 1 THEN Len(ctxs[1].paths)
    ELSE Len(ctxs[1].paths) + Len(ctxs[2].paths)

NoteTexts == {"", "n"}

\* the "notes" of the documents the tree is built from: absent, or a note
\* (an empty one too) of the file a.t
TreeNotes ==
    {[has |-> FALSE, map |-> NoNotes]}
    \cup {[has |-> TRUE, map |-> [q \in {pAT} |-> t]] : t \in NoteTexts}

ConfigsChoices ==
    {[has |-> TRUE, showFolders |-> TRUE], [has |-> TRUE, showFolders |-> FALSE],
     [has |-> FALSE, showFolders |-> FALSE]}

TreeDocs ==
    {DocFile(c, n.has, n.map, g.has, g.showFolders) :
        c \in {x \in ContextTexts : EntryCount(x) <= MaxEntries},
        n \in TreeNotes, g \in ConfigsChoices}

TreeFiles == TreeDocs \cup {AbsentFile, GarbageFile, NullFile}

\* the files the Add-Note command is invoked on
NotePaths == {pAT, pAAT}

\* the "notes" of the documents Add-Note starts from: absent, empty, or
\* notes of some of the files
AddNoteNotes ==
    {[has |-> FALSE, map |-> NoNotes]}
    \cup {[has |-> TRUE, map |-> [q \in d |-> "n"]] : d \in SUBSET NotePaths}

\* one context, or two whose written order is not their enumeration order
AddNoteContexts ==
    {<<Ctx(ctxA, <<pAT, pAAT>>)>>,
     <<Ctx(ctxA, <<pAT>>), Ctx(ctx1, <<pAAT>>)>>}

AddNoteDocs ==
    {DocFile(c, n.has, n.map, g.has, g.showFolders) :
        c \in AddNoteContexts, n \in AddNoteNotes,
        g \in {[has |-> TRUE, showFolders |-> TRUE],
               [has |-> FALSE, showFolders |-> FALSE]}}

AddNoteFiles == AddNoteDocs \cup {AbsentFile, GarbageFile, NullFile}

\* no notes key, or a non-empty notes map without empty-string values
NotesClean(file) ==
    /\ file.hasNotes => DOMAIN file.notes # {}
    /\ \A q \in DOMAIN file.notes : file.notes[q] # ""

FileItems == {Undefined} \cup {FileItem(PathJoin(Root, Split(q))) : q \in NotePaths}

Answers == {Cancelled} \cup {Submitted(t) : t \in NoteTexts}

(***************************************************************************)
(* State.  The host shows one input box at a time, so one invocation of    *)
(* the command is in progress at a time; what happens to the file while it *)
(* awaits the input box is ExternalEdit.                                   *)
(***************************************************************************)
VARIABLES
    disk,       \* .vscode/contexts.json
    items,      \* TreeDataProvider._items
    treeMsgs,   \* the notifications of the last loadConfig
    pending,    \* context-organizer.refresh commands issued and not yet run
    pc,         \* the command: "idle", "prompt" (awaiting the input box), "done"
    config,     \* the document the command holds in memory
    target,     \* relativePath of the command
    note,       \* what the input box returned to the command
    shown,      \* the notification the command showed, "none" if none
    thrown,     \* an error left the command uncaught
    refreshes   \* the refresh commands the command issued

vars == <<disk, items, treeMsgs, pending, pc, config, target, note, shown,
          thrown, refreshes>>

treeVars == <<items, treeMsgs>>
procVars == <<pc, config, target, note, shown, thrown, refreshes>>

InitProcs ==
    /\ pending = 0
    /\ pc = "idle"
    /\ config = NoConfig
    /\ target = EmptyStr
    /\ note = Cancelled
    /\ shown = "none"
    /\ thrown = FALSE
    /\ refreshes = 0

\* new TreeDataProvider(workspaceRoot) on the file as it is
InitOn(files) ==
    /\ disk \in files
    /\ items = LoadConfig(<<>>, disk).items
    /\ treeMsgs = LoadConfig(<<>>, disk).msgs
    /\ InitProcs

Init == InitOn(AddNoteFiles)

InitClean == InitOn({f \in AddNoteDocs : NotesClean(f)})

InitTree == InitOn(TreeFiles)

(***************************************************************************)
(* Actions.                                                                *)
(***************************************************************************)
\* refresh(): loadConfig() and the change event, on the user's request
Refresh ==
    /\ items' = LoadConfig(items, disk).items
    /\ treeMsgs' = LoadConfig(items, disk).msgs
    /\ UNCHANGED <<disk, pending, procVars>>

\* the handler of a queued context-organizer.refresh command: refresh()
RunRefresh ==
    /\ pending > 0
    /\ pending' = pending - 1
    /\ items' = LoadConfig(items, disk).items
    /\ treeMsgs' = LoadConfig(items, disk).msgs
    /\ UNCHANGED <<disk, procVars>>

\* the command is invoked and runs up to its await
Invoke(hasWorkspace, fileItem) ==
    /\ pc \in {"idle", "done"}
    /\ LET r == AddNoteStart(disk, hasWorkspace, fileItem)
       IN  /\ pc' = r.pc
           /\ config' = r.config
           /\ target' = r.target
           /\ note' = Cancelled
           /\ shown' = r.shown
           /\ thrown' = r.thrown
           /\ refreshes' = 0
    /\ UNCHANGED <<disk, treeVars, pending>>

\* the input box answers and the command runs to its end; writeFileSync
\* succeeds or throws
Answer(answer, writeOk) ==
    /\ pc = "prompt"
    /\ note' = answer
    /\ LET r == AddNoteFinish(disk, config, target, answer, writeOk)
       IN  /\ pending + r.refreshes <= MaxPending
           /\ disk' = r.file
           /\ shown' = r.shown
           /\ refreshes' = r.refreshes
           /\ pending' = pending + r.refreshes
    /\ pc' = "done"
    /\ config' = NoConfig
    /\ target' = EmptyStr
    /\ UNCHANGED <<treeVars, thrown>>

\* contexts.json is edited, replaced or deleted outside the command
ExternalEdit(file) ==
    /\ file # disk
    /\ disk' = file
    /\ UNCHANGED <<treeVars, pending, procVars>>

AddNoteStep ==
    \/ \E w \in BOOLEAN, f \in FileItems : Invoke(w, f)
    \/ \E a \in Answers, ok \in BOOLEAN : Answer(a, ok)
    \/ RunRefresh
    \/ Refresh

Next ==
    \/ AddNoteStep
    \/ \E file \in AddNoteFiles : ExternalEdit(file)

\* the command, the refreshes and edits of the file made outside
Spec == Init /\ [][Next]_vars

\* the command and the refreshes alone, from a document whose notes are clean
NextNotes == AddNoteStep
SpecNotes == InitClean /\ [][NextNotes]_vars

\* the tree built from every document, and rebuilt
NextTree == Refresh
SpecTree == InitTree /\ [][NextTree]_vars

(***************************************************************************)
(* Properties of the tree.                                                 *)
(***************************************************************************)
\* the last load read a document to its end
Loaded == disk.kind = "doc" /\ disk.hasConfigs /\ treeMsgs = <<>>
FlatLoaded == Loaded /\ ~disk.showFolders
GroupedLoaded == Loaded /\ disk.showFolders

\* getChildren(): the root items
RootItems == items

HasExtension(p) == Extname(p) # EmptyStr

\* node is the File item of the path entry
FileFor(node, entry) ==
    node.kind = "file" /\ node.filePath = PathJoin(Root, Split(entry))

\* children are the File items of the entries, one each, in their order
OneFilePerEntry(children, entries) ==
    /\ Len(children) = Len(entries)
    /\ \A k \in 1..Len(entries) : FileFor(children[k], entries[k])

\* C1 as claimed: in flat mode the Section of each context holds exactly one
\* File item per path entry of the context, in the order of the list, and
\* nothing else, whatever the entries are.
C1_OneFilePerEntry ==
    FlatLoaded =>
        \A m \in 1..Len(disk.contexts) :
            \E i \in 1..Len(RootItems) :
                /\ RootItems[i].label = disk.contexts[m].name
                /\ OneFilePerEntry(RootItems[i].children, disk.contexts[m].paths)

\* C1 as amended: in flat mode the Section of each context holds exactly one
\* File item per path entry whose final segment has an extension, in the
\* order of the list, and nothing else; entries without extension are left
\* out, entries that occur twice are shown twice.
C1_OneFilePerEntryWithExtension ==
    FlatLoaded =>
        \A m \in 1..Len(disk.contexts) :
            \E i \in 1..Len(RootItems) :
                /\ RootItems[i].label = disk.contexts[m].name
                /\ OneFilePerEntry(RootItems[i].children,
                                   SelectSeq(disk.contexts[m].paths, HasExtension))

\* flat mode, a context that lists the same file twice and shows it twice
C1_Witness ==
    /\ FlatLoaded
    /\ \E m \in 1..Len(disk.contexts) : disk.contexts[m].paths = <<pAT, pAT>>
    /\ \E i \in 1..Len(RootItems) : Len(RootItems[i].children) = 2

DistinctLabels(level) ==
    \A j, k \in 1..Len(level) : j # k => level[j].label # level[k].label

RECURSIVE NoDuplicateChild(_)
NoDuplicateChild(node) ==
    /\ node.kind \in {"section", "folder"} => DistinctLabels(node.children)
    /\ \A k \in 1..Len(node.children) : NoDuplicateChild(node.children[k])

\* C3 as claimed: in grouped mode no Section and no Folder has two children
\* with the same label, whatever the path list is.
C3_NoDuplicateLabels ==
    GroupedLoaded => \A i \in 1..Len(RootItems) : NoDuplicateChild(RootItems[i])

\* from level, Folders labelled parts[i], parts[i+1], ... lead to a File
\* labelled with the last part
RECURSIVE Represented(_, _, _)
Represented(level, parts, i) ==
    \E k \in 1..Len(level) :
        /\ level[k].label = parts[i]
        /\ IF i = Len(parts) THEN level[k].kind = "file"
           ELSE /\ level[k].kind = "folder"
                /\ Represented(level[k].children, parts, i + 1)

\* every segment of every entry of the list is a name
PlainEntries(paths) ==
    \A e \in 1..Len(paths) :
        \A k \in 1..Len(Split(paths[e])) : Split(paths[e])[k] # EmptyStr

\* C4 as claimed, for the path lists all of whose segments are names: in
\* grouped mode every path entry of a context has, under the context's
\* Section, a File labelled with its final segment, reached through Folders
\* labelled with its intermediate segments in order.
C4_EveryEntryRepresented ==
    GroupedLoaded =>
        \A m \in 1..Len(disk.contexts) :
            \A e \in 1..Len(disk.contexts[m].paths) :
              PlainEntries(disk.contexts[m].paths) =>
                \E i \in 1..Len(RootItems) :
                    /\ RootItems[i].label = disk.contexts[m].name
                    /\ Represented(RootItems[i].children,
                                   Split(disk.contexts[m].paths[e]), 1)

\* C7 as claimed: when loading fails (a diagnostic is shown), the tree is
\* empty.
C7_FailClosed == treeMsgs # <<>> => RootItems = <<>>

(***************************************************************************)
(* Properties of the Add-Note command.                                     *)
(***************************************************************************)
\* the step in which the command, awaiting the input box, ends
EndStep == pc = "prompt" /\ pc' = "done"

\* the step in which the command writes contexts.json and says so
PersistStep == EndStep /\ shown' \in {"info: saved", "info: removed"}

\* the step in which the command ends on a cancelled prompt
CancelStep == EndStep /\ note'.cancelled

\* a step of the command
CommandStep == procVars' # procVars

\* the note entry of path q: present or not, and its text
NoteEntry(c, q) ==
    IF c.hasNotes /\ q \in DOMAIN c.notes
    THEN [present |-> TRUE, text |-> c.notes[q]]
    ELSE [present |-> FALSE, text |-> ""]

NotedPaths(c) == IF c.hasNotes THEN DOMAIN c.notes ELSE {}

\* documents a and b, as parsed, differ at most in the note entry of path t
SameButNote(a, b, t) ==
    /\ ~a.isNull /\ ~b.isNull
    /\ a.contexts = b.contexts
    /\ a.hasConfigs = b.hasConfigs
    /\ a.showFolders = b.showFolders
    /\ \A q \in (NotedPaths(a) \cup NotedPaths(b)) \ {t} :
          NoteEntry(a, q) = NoteEntry(b, q)

\* C2 as claimed: the document an Add-Note writes differs from the document
\* that is on disk at the moment of the write only in the note entry of its
\* target path (nothing changed the file between its read and its write).
C2_WriteChangesOnlyTheNote ==
    [][(PersistStep /\ disk.kind = "doc") =>
          SameButNote(ParseJSON(disk), ParseJSON(disk'), target)]_vars

\* C5: from a document whose notes are clean (no notes key, or a non-empty
\* notes map without empty-string values), whatever Add-Note operations run,
\* the document on disk has no empty-string note and no empty notes map.
C5_NotesStayClean == disk.kind = "doc" /\ NotesClean(disk)

RECURSIVE AnyTooltip(_)
AnyTooltip(level) ==
    \E k \in 1..Len(level) :
        level[k].hasTooltip \/ AnyTooltip(level[k].children)

\* an empty submission has removed the last note and with it the notes key:
\* the tree, not yet refreshed, still shows the note
C5_Witness ==
    /\ pc = "done" /\ shown = "info: removed" /\ note = Submitted("")
    /\ ~disk.hasNotes
    /\ pending = 1
    /\ \E i \in 1..Len(RootItems) : AnyTooltip(RootItems[i].children)

\* C6 as claimed: no error leaves the command uncaught, whatever the file
\* holds and whatever the argument of the command is.
C6_NoErrorEscapes == ~thrown

\* C8: the refresh command is issued only by the step that has written
\* contexts.json, and once by it; every other step of the command (a
\* cancelled prompt, a failed write, a file that is absent or does not
\* parse) issues none and leaves the tree as it was.
C8_RefreshOnlyAfterWrite ==
    [][/\ pending' > pending => PersistStep
       /\ PersistStep =>
             /\ pending' = pending + 1
             /\ refreshes' = 1
       /\ (CommandStep /\ ~PersistStep) =>
             /\ pending' = pending
             /\ refreshes' = 0
             /\ disk' = disk
       /\ CommandStep => items' = items]_vars

\* the command has saved a note and issued its one refresh, not yet run
C8_Witness ==
    /\ pc = "done" /\ shown = "info: saved" /\ refreshes = 1 /\ pending = 1
    /\ disk.hasNotes

\* C9: the step that ends the command on a cancelled prompt leaves
\* contexts.json as it is.
C9_CancelChangesNothing == [][CancelStep => disk' = disk]_vars

\* the prompt was cancelled on a document without notes key, which still
\* has none
C9_Witness ==
    /\ pc = "done" /\ note.cancelled /\ shown = "none" /\ ~thrown
    /\ disk.kind = "doc" /\ ~disk.hasNotes

C11_SectionsInDeclaredOrder ==
    Loaded =>
        /\ Len(RootItems) = Len(disk.contexts)
        /\ \A i \in 1..Len(disk.contexts) :
              /\ RootItems[i].kind = "section"
              /\ RootItems[i].label = disk.contexts[i].name

RECURSIVE FilesAreLeaves(_)
FilesAreLeaves(level) ==
    \A k \in 1..Len(level) :
        /\ level[k].kind = "file" => level[k].children = <<>>
        /\ FilesAreLeaves(level[k].children)

\* C14 as claimed, for the path lists all of whose segments are names: no
\* File item of the tree has children, in either mode.
C14_FilesAreLeaves ==
    (Loaded /\ \A m \in 1..Len(disk.contexts) :
                  PlainEntries(disk.contexts[m].paths))
        => FilesAreLeaves(RootItems)

\* the step of a refresh: the file and the command are left alone
RefreshStep == disk' = disk /\ procVars' = procVars

\* the tree one load of the file gives, starting from no items
FreshTree(file) == LoadInto(<<>>, file).items

\* C12: whatever the tree holds, and however many refreshes came before,
\* after a refresh the tree is the tree one load of the file as it is now
\* gives: nothing of earlier loads or of an earlier document is left.
C12_RefreshRebuilds == [][RefreshStep => items' = FreshTree(disk')]_vars

\* a note was saved into a document that had none and the queued refresh has
\* run: the tree, built without the note, now shows it
C12_Witness ==
    /\ pc = "done" /\ shown = "info: saved" /\ refreshes = 1 /\ pending = 0
    /\ disk.kind = "doc" /\ disk.showFolders /\ NotedPaths(disk) = {pAT}
    /\ RootItems = FreshTree(disk)
    /\ \E i \in 1..Len(RootItems) : AnyTooltip(RootItems[i].children)

\* the name of the folder a file is in
ParentName(filePath) ==
    LET segs == NormSegs(Split(filePath), <<>>)
    IN  segs[Len(segs) - 1]

\* the File item f shows the note the document holds for its path, and the
\* description of the document's mode
FileEnriched(f) ==
    LET rel  == Relative(Root, f.filePath)
        held == disk.hasNotes /\ rel \in DOMAIN disk.notes /\ disk.notes[rel] # ""
    IN  /\ f.hasTooltip <=> held
        /\ held => f.note = disk.notes[rel]
        /\ f.description =
              IF ~disk.showFolders
              THEN [kind |-> "text", text |-> ParentName(f.filePath)]
              ELSE IF held THEN [kind |-> "glyph", text |-> EmptyStr]
              ELSE NoDescription

RECURSIVE FilesEnriched(_)
FilesEnriched(level) ==
    \A k \in 1..Len(level) :
        /\ level[k].kind = "file" => FileEnriched(level[k])
        /\ FilesEnriched(level[k].children)

====
